---- MODULE Spec2Model ----
(***************************************************************************)
(* A model of the channel-status bot (bot.js: the periodic scan, the       *)
(* classifier, the mapping lookups of voodoo.js, the status push), of the  *)
(* API server (api.js) and of the checkout service (its routes, the Cart   *)
(* and Order collections, the discount allocation of sendOrderToZapier).   *)
(*                                                                         *)
(* Strings that the code inspects character by character (channel names,   *)
(* titles) are sequences of Unicode code points.  Identifiers that the     *)
(* code only compares (channel ids, product ids, session ids, cart keys)   *)
(* are TLA+ strings.                                                        *)
(***************************************************************************)
EXTENDS Integers, Sequences, FiniteSets, TLC

\* ------------------------------------------------------------------ bounds

\* Number of times the interval timer fires.
MaxCycles == 2

\* Number of channel renames the environment performs.
MaxRenames == 1

\* Number of requests to the routes other than /webhook.
MaxRequests == 2

\* Number of pieces (a glyph, a blank, a word) a sampled channel name is
\* made of.
MaxPieces == 3

\* Number of lines of a sampled mapping file.
MaxLines == 3

\* Largest quantity of a line item, and largest amount_total (in cents), of
\* the carts and sessions given to sendOrderToZapier.
MaxQuantity == 4
MaxAmount == 12

\* Number of requests the payments collaborator sends to POST /webhook.
MaxDeliveries == 2

\* ------------------------------------------------------- code points, names

\* U+1F7E2, U+1F534, U+1F7E1: the three glyphs of determineTagFromChannel.
WorkingEmoji == 128994
DownEmoji == 128308
UpdatingEmoji == 128993

\* The first and the last code point of the character class of removeEmojis:
\* its eight ranges are adjacent and cover U+1F300..U+1FBFF.
EmojiFirst == 127744
EmojiLast == 130047

\* 'work', 'test', 'update'
KwWork == <<119, 111, 114, 107>>
KwTest == <<116, 101, 115, 116>>
KwUpdate == <<117, 112, 100, 97, 116, 101>>

\* String.prototype.toLowerCase, on the code points the model uses (ASCII).
ToLowerCase(s) ==
  [i \in 1..Len(s) |-> IF s[i] \in 65..90 THEN s[i] + 32 ELSE s[i]]

\* String.prototype.includes
Includes(s, sub) ==
  \E i \in 0..(Len(s) - Len(sub)) : \A j \in 1..Len(sub) : s[i + j] = sub[j]

\* RegExp.prototype.test of a one-code-point pattern
HasCodePoint(s, cp) == \E i \in 1..Len(s) : s[i] = cp

\* The white space String.prototype.trim removes (the part the model uses).
IsWhiteSpace(cp) == cp \in {9, 10, 11, 12, 13, 32, 160}

RECURSIVE TrimStart(_)
TrimStart(s) ==
  IF s # <<>> /\ IsWhiteSpace(Head(s)) THEN TrimStart(Tail(s)) ELSE s

RECURSIVE TrimEnd(_)
TrimEnd(s) ==
  IF s # <<>> /\ IsWhiteSpace(s[Len(s)])
  THEN TrimEnd(SubSeq(s, 1, Len(s) - 1))
  ELSE s

Trim(s) == TrimEnd(TrimStart(s))

IsStrippedGlyph(cp) == cp >= EmojiFirst /\ cp <= EmojiLast

KeepCodePoint(cp) == ~IsStrippedGlyph(cp)

\* removeEmojis: delete every code point of the class, then trim.
removeEmojis(str) == Trim(SelectSeq(str, KeepCodePoint))

\* determineTagFromChannel(channelName) with the keywords tried before the
\* glyphs.
determineTagKeywordsFirst(channelName) ==
  LET lowerName == ToLowerCase(channelName) IN
  IF Includes(lowerName, KwWork) THEN "working"
  ELSE IF Includes(lowerName, KwTest) THEN "down"
  ELSE IF Includes(lowerName, KwUpdate) THEN "updating"
  ELSE IF HasCodePoint(channelName, WorkingEmoji) THEN "working"
  ELSE IF HasCodePoint(channelName, DownEmoji) THEN "down"
  ELSE IF HasCodePoint(channelName, UpdatingEmoji) THEN "updating"
  ELSE "unknown"

\* determineTagFromChannel(channelName) without toLowerCase.
determineTagCaseSensitive(channelName) ==
  IF HasCodePoint(channelName, WorkingEmoji) THEN "working"
  ELSE IF HasCodePoint(channelName, DownEmoji) THEN "down"
  ELSE IF HasCodePoint(channelName, UpdatingEmoji) THEN "updating"
  ELSE IF Includes(channelName, KwWork) THEN "working"
  ELSE IF Includes(channelName, KwTest) THEN "down"
  ELSE IF Includes(channelName, KwUpdate) THEN "updating"
  ELSE "unknown"

\* determineTagFromChannel
determineTagFromChannel(channelName) ==
  IF HasCodePoint(channelName, WorkingEmoji) THEN "working"
  ELSE IF HasCodePoint(channelName, DownEmoji) THEN "down"
  ELSE IF HasCodePoint(channelName, UpdatingEmoji) THEN "updating"
  ELSE LET lowerName == ToLowerCase(channelName) IN
       IF Includes(lowerName, KwWork) THEN "working"
       ELSE IF Includes(lowerName, KwTest) THEN "down"
       ELSE IF Includes(lowerName, KwUpdate) THEN "updating"
       ELSE "unknown"

Tags == {"working", "down", "updating", "unknown"}

\* -------------------------------------------------------------- the bot

\* What a lookup resolves with when no row matches (JavaScript null), and the
\* value of a cache entry that was never written (JavaScript undefined).
NULL == "<null>"
Undefined == "<undefined>"

\* The text channels of the guilds the bot is in (channel.id), and their guilds.
Channels == {"c1", "c2"}
GuildOf == [c \in Channels |-> IF c = "c1" THEN "g1" ELSE "g2"]

\* Channel names: "G Ab" with the green glyph, "Rab" with the red one, "ab",
\* and "Yz" with the yellow one.
NameGreenAb == <<WorkingEmoji, 32, 65, 98>>
NameRedAb == <<DownEmoji, 97, 98>>
NamePlainAb == <<97, 98>>
NameYellowZ == <<UpdatingEmoji, 122>>
NameSet == {NameGreenAb, NameRedAb, NamePlainAb, NameYellowZ}

\* Rows of product_mapping the import may have written: the title "Ab".
TitleAb == <<65, 98>>

VARIABLES
  \* bot.js
  channelStatusCache,  \* channel id -> tag, "ignored" or Undefined
  name,                \* channel id -> channel.name
  task,                \* cycle -> channel id -> the per-channel async function
  cycles,              \* timer firings so far
  renames,             \* renames so far
  delivered,           \* channel id -> the body of the last request the remote
                       \* end received for the channel, NoPayload before any
  isTextBased,         \* the channels for which channel.isTextBased() holds
  DEFAULT_PRODUCT_ID,  \* process.env.DEFAULT_PRODUCT_ID || 'unknown'
  \* voodoo.js
  channel_mapping,     \* channel_id -> product_id, NULL where there is no row
  product_mapping      \* set of rows [title, product_id]

VARIABLES
  carts,        \* the cartKey values of the Cart collection
  orders,       \* the Order collection: a sequence of documents
  req,          \* delivery -> the run of the POST /webhook handler
  received,     \* webhook requests received so far
  forwards,     \* session id -> axios.post calls of sendOrderToZapier
  metadata,     \* session id -> session.metadata.cart_key, "none" when the
                \* session has none, "absent" when Stripe has no such session
  emailValid    \* session id -> the customer email matches emailRegex

VARIABLES
  handled,      \* requests of the other routes handled so far
  res,          \* the response to the last of them: route, status, body
  shopTokens,   \* documents in the ShopToken collection
  shopifyTags   \* api.js: product id -> the tags Shopify holds for it

VARIABLES
  args,         \* the arguments of the last call the model keeps: a request
                \* of api.js, or those of a function applied on its own
  ret           \* what that function returned

VARIABLES
  \* auth-command.js
  userState,    \* user id -> the entry of the userState Map, or none
  run,          \* message -> the call of handleAuthCommand for it
  seen,         \* messages handed to handleAuthCommand so far
  now,          \* Date.now(), in milliseconds since the bot started
  outbox        \* what the bot sent: replies in the channel, direct messages

httpVars == <<handled, res, shopTokens, shopifyTags>>

pureVars == <<args, ret>>

authVars == <<userState, run, seen, now, outbox>>

restVars == <<httpVars, pureVars, authVars>>

\* What the webhook handler never writes: the sessions as Stripe reports them.
webConfig == <<metadata, emailValid>>

webVars == <<carts, orders, req, received, forwards, webConfig>>

\* What the scan never writes: the configuration and the mapping tables.
botConfig == <<isTextBased, DEFAULT_PRODUCT_ID, channel_mapping, product_mapping>>

botVars == <<channelStatusCache, name, task, cycles, renames, delivered, botConfig>>

NoPayload == [tag |-> "none", title |-> <<>>, productId |-> NULL]

\* A per-channel async function that has not been called.
IdleTask ==
  [pc |-> "idle", channelName |-> <<>>, newTag |-> "none", productId |-> NULL,
   titleQuery |-> <<>>, lookups |-> 0, sink |-> "none", payload |-> NoPayload,
   arrived |-> FALSE, outcome |-> "none"]

\* JavaScript truthiness of a lookup result: null and '' are falsy.
Truthy(productId) == productId # NULL /\ productId # ""

\* A channel lookup that never finds a row.
getProductIdForChannelNoRow(channelId) == NULL

\* getProductIdForChannel: the row's product_id, or null.
getProductIdForChannel(channelId) == channel_mapping[channelId]

\* getProductIdForTitle: the product_id of a row with lower(title) = lower(?);
\* the set of values db.get may resolve with ({NULL} when no row matches).
getProductIdForTitle(title) ==
  LET rows == {r \in product_mapping : ToLowerCase(r.title) = ToLowerCase(title)}
  IN IF rows = {} THEN {NULL} ELSE {r.product_id : r \in rows}

\* updateProductStatus without the comparison with DEFAULT_PRODUCT_ID.
SinkSkipsUnknownOnly(productId) == productId = "unknown"

\* updateProductStatus returns without a request for these product ids.
SinkSkips(productId) == productId = DEFAULT_PRODUCT_ID \/ productId = "unknown"

\* The per-channel function after it returned: its locals are gone; what it did
\* stays on record (lookups made, how updateProductStatus ended, how it returned).
Returned(lookups, sink, outcome) ==
  [IdleTask EXCEPT !.pc = "done", !.lookups = lookups, !.sink = sink,
                   !.outcome = outcome]

\* The start without the comparison with the cached tag (lines 167-172).
StartUnitNoCompare(c) ==
  IF channelStatusCache[c] = "ignored"
  THEN Returned(0, "none", "skipIgnored")
  ELSE [IdleTask EXCEPT !.pc = "lookupChannel", !.channelName = name[c],
                        !.newTag = determineTagFromChannel(name[c]), !.lookups = 1]

\* The synchronous start of the per-channel function, up to its first await.
StartUnit(c) ==
  LET channelName == name[c]
      newTag == determineTagFromChannel(channelName)
      lastTag == channelStatusCache[c]
  IN IF channelStatusCache[c] = "ignored"
     THEN Returned(0, "none", "skipIgnored")
     ELSE IF lastTag # Undefined /\ lastTag = newTag
     THEN Returned(0, "none", "noChange")
     ELSE [IdleTask EXCEPT !.pc = "lookupChannel", !.channelName = channelName,
                           !.newTag = newTag, !.lookups = 1]

\* The timer fires: the callback calls the per-channel function of every text
\* channel of every guild; each runs to its first await.
Tick ==
  /\ cycles < MaxCycles
  /\ cycles' = cycles + 1
  /\ task' = [task EXCEPT ![cycles + 1] =
                [c \in Channels |-> IF c \in isTextBased THEN StartUnit(c) ELSE IdleTask]]
  /\ UNCHANGED <<channelStatusCache, name, renames, delivered, botConfig, webVars,
               restVars>>

\* The function once a product id is resolved (lines 194-200): the task.
\* updateProductStatus returns at once for a skipped product id; otherwise the
\* function awaits the request.
ResolvedTask(t, productId) ==
  IF t.newTag # "unknown"
  THEN IF SinkSkips(productId)
       THEN Returned(t.lookups, "skipped", "cached")
       ELSE [t EXCEPT !.pc = "push", !.productId = productId, !.sink = "pending",
                      !.payload = [tag |-> t.newTag, title |-> t.channelName,
                                   productId |-> productId]]
  ELSE Returned(t.lookups, "none", "unknownTag")

\* The cache written for the tag "unknown" as well.
ResolvedCacheUnknownToo(c, t, productId) ==
  IF SinkSkips(productId) \/ t.newTag = "unknown"
  THEN [channelStatusCache EXCEPT ![c] = t.newTag]
  ELSE channelStatusCache

\* The cache written before updateProductStatus is awaited.
ResolvedCacheEarly(c, t, productId) ==
  IF t.newTag # "unknown"
  THEN [channelStatusCache EXCEPT ![c] = t.newTag]
  ELSE channelStatusCache

\* The function once a product id is resolved: the cache, written right after
\* updateProductStatus returned for a skipped product id.
ResolvedCache(c, t, productId) ==
  IF t.newTag # "unknown" /\ SinkSkips(productId)
  THEN [channelStatusCache EXCEPT ![c] = t.newTag]
  ELSE channelStatusCache

\* The catch of the lookups (lines 189-192): log and return; the cache is
\* not touched.
LookupFailed(t) == Returned(t.lookups, "none", "dbError")

\* The catch marking the channel as having no mapping.
CacheAfterLookupErrorIgnores(c) == [channelStatusCache EXCEPT ![c] = "ignored"]

CacheAfterLookupError(c) == channelStatusCache

\* The argument of the title lookup (lines 179-180).
TitleQuery(channelName) == ToLowerCase(removeEmojis(channelName))

\* db.get of getProductIdForChannel calls back.
ChannelLookupReturns(k, c) ==
  LET t == task[k][c] IN
  /\ t.pc = "lookupChannel"
  /\ \/ /\ task' = [task EXCEPT ![k][c] = LookupFailed(t)]
        /\ channelStatusCache' = CacheAfterLookupError(c)
     \/ LET productId == getProductIdForChannel(c) IN
        IF Truthy(productId)
        THEN /\ task' = [task EXCEPT ![k][c] = ResolvedTask(t, productId)]
             /\ channelStatusCache' = ResolvedCache(c, t, productId)
        ELSE /\ task' = [task EXCEPT ![k][c] =
                           [t EXCEPT !.pc = "lookupTitle", !.lookups = 2,
                                     !.titleQuery = TitleQuery(t.channelName)]]
             /\ UNCHANGED channelStatusCache
  /\ UNCHANGED <<name, cycles, renames, delivered, botConfig, webVars, restVars>>

\* Lines 183-186 without the cache write.
MarkIgnoredForgotten(c) == channelStatusCache

\* Lines 183-186: no mapping; the cache and the task.
MarkIgnored(c) == [channelStatusCache EXCEPT ![c] = "ignored"]

NoMapping(t) == Returned(t.lookups, "none", "markedIgnored")

\* db.get of getProductIdForTitle calls back.
TitleLookupReturns(k, c) ==
  LET t == task[k][c] IN
  /\ t.pc = "lookupTitle"
  /\ \/ /\ task' = [task EXCEPT ![k][c] = LookupFailed(t)]
        /\ channelStatusCache' = CacheAfterLookupError(c)
     \/ \E productId \in getProductIdForTitle(t.titleQuery) :
          IF Truthy(productId)
          THEN /\ task' = [task EXCEPT ![k][c] = ResolvedTask(t, productId)]
               /\ channelStatusCache' = ResolvedCache(c, t, productId)
          ELSE /\ task' = [task EXCEPT ![k][c] = NoMapping(t)]
               /\ channelStatusCache' = MarkIgnored(c)
  /\ UNCHANGED <<name, cycles, renames, delivered, botConfig, webVars, restVars>>

\* The cache written only when the request succeeded.
CacheAfterPushOnSuccess(c, t, result) ==
  IF result = "ok" THEN [channelStatusCache EXCEPT ![c] = t.newTag]
  ELSE channelStatusCache

\* The cache keyed by something all channels share.
CacheAfterPushAll(c, t, result) == [d \in Channels |-> t.newTag]

\* The cache left as it was after updateProductStatus returned.
CacheAfterPushUnwritten(c, t, result) == channelStatusCache

\* The cache after updateProductStatus returned (line 199).
CacheAfterPush(c, t, result) == [channelStatusCache EXCEPT ![c] = t.newTag]

\* The request of axios.post reaches the remote end, which records its body;
\* the response is still on its way.
SinkReceives(k, c) ==
  LET t == task[k][c] IN
  /\ t.pc = "push"
  /\ ~t.arrived
  /\ task' = [task EXCEPT ![k][c] = [t EXCEPT !.arrived = TRUE]]
  /\ delivered' = [delivered EXCEPT ![c] = t.payload]
  /\ UNCHANGED <<channelStatusCache, name, cycles, renames, botConfig, webVars,
               restVars>>

\* axios.post of updateProductStatus settles: the response is logged, or the
\* error is caught and logged; the function returns and the cache is written.
\* A response is there only once the request has arrived; an error (a timeout,
\* a lost response, a refusal) can come before or after.
PushReturns(k, c) ==
  LET t == task[k][c] IN
  /\ t.pc = "push"
  /\ \E result \in IF t.arrived THEN {"ok", "failed"} ELSE {"failed"} :
       /\ task' = [task EXCEPT ![k][c] = Returned(t.lookups, result, "cached")]
       /\ channelStatusCache' = CacheAfterPush(c, t, result)
  /\ UNCHANGED <<name, cycles, renames, delivered, botConfig, webVars, restVars>>

\* A moderator renames a scanned channel (the name of a channel that is not
\* text based is never read).
RenameTo(c, n) ==
  /\ renames < MaxRenames
  /\ c \in isTextBased
  /\ n # name[c]
  /\ name' = [name EXCEPT ![c] = n]
  /\ renames' = renames + 1
  /\ UNCHANGED <<channelStatusCache, task, cycles, delivered, botConfig, webVars,
               restVars>>

Rename(c) == \E n \in NameSet : RenameTo(c, n)

Cycles == 1..MaxCycles

\* The state at the 'ready' event, before the first timer firing.
BotStart ==
  /\ channelStatusCache = [c \in Channels |-> Undefined]
  /\ task = [k \in Cycles |-> [c \in Channels |-> IdleTask]]
  /\ cycles = 0
  /\ renames = 0
  /\ delivered = [c \in Channels |-> NoPayload]

\* One text channel (c2 is a voice channel), any name, any mapping rows; a
\* product_id of '' is what the import stores for an empty field, and one of
\* 'unknown' is a row like any other.
BotInit ==
  /\ BotStart
  /\ isTextBased = {"c1"}
  /\ name \in {n \in [Channels -> NameSet] : n["c2"] = NamePlainAb}
  /\ DEFAULT_PRODUCT_ID \in {"unknown", "p2"}
  /\ channel_mapping \in {m \in [Channels -> {NULL, "p1", "", "unknown"}] : m["c2"] = NULL}
  /\ product_mapping \in {{}, {[title |-> TitleAb, product_id |-> "p2"]}}

\* Two text channels in two guilds: c1 is mapped by its id, c2 by its title
\* while its name has one.
GuildsInit ==
  /\ BotStart
  /\ isTextBased = Channels
  /\ name = [c \in Channels |-> IF c = "c1" THEN NameGreenAb ELSE NameRedAb]
  /\ DEFAULT_PRODUCT_ID = "unknown"
  /\ channel_mapping = [c \in Channels |-> IF c = "c1" THEN "p1" ELSE NULL]
  /\ product_mapping = {[title |-> TitleAb, product_id |-> "p2"]}

BotNext ==
  \/ Tick
  \/ \E k \in Cycles, c \in Channels : ChannelLookupReturns(k, c)
  \/ \E k \in Cycles, c \in Channels : TitleLookupReturns(k, c)
  \/ \E k \in Cycles, c \in Channels : SinkReceives(k, c)
  \/ \E k \in Cycles, c \in Channels : PushReturns(k, c)
  \/ \E c \in Channels : Rename(c)

\* The scan of two guilds; the channel of the second guild is renamed between
\* a name whose title has a mapping and a name whose title has none.
GuildsNext ==
  \/ Tick
  \/ \E k \in Cycles, c \in Channels : ChannelLookupReturns(k, c)
  \/ \E k \in Cycles, c \in Channels : TitleLookupReturns(k, c)
  \/ \E k \in Cycles, c \in Channels : SinkReceives(k, c)
  \/ \E k \in Cycles, c \in Channels : PushReturns(k, c)
  \/ \E n \in {NameRedAb, NameYellowZ} : RenameTo("c2", n)

\* ------------------------------------------------ the checkout service

\* Stripe checkout sessions (session.id) and the cart key that
\* /create-checkout-session put in the metadata of each (line 251).
Sessions == {"s1", "s2"}
CartKeyOf == [s \in Sessions |-> IF s = "s1" THEN "k1" ELSE "k2"]
UNKNOWN_CART == "UNKNOWN_CART"

Deliveries == 1..MaxDeliveries

\* A handler run that has not started.
NoRequest ==
  [pc |-> "none", signature |-> "none", session |-> "none", cartKey |-> "none",
   status |-> 0, result |-> "none"]

\* The handler answered: res.sendStatus / res.status().json / res.json.
Responded(r, status, result) ==
  [r EXCEPT !.pc = "responded", !.status = status, !.result = result]

\* The unique index on Order.sessionId with the check switched off.
DuplicateKeyUnchecked(sessionId) == FALSE

\* orderSchema, sessionId: { unique: true }: the insert of a second document
\* with this sessionId fails with a duplicate key error.
DuplicateKey(sessionId) ==
  \E i \in 1..Len(orders) : orders[i].sessionId = sessionId

\* The document Order.create stores (the fields the model follows).
OrderDocument(sessionId) == [sessionId |-> sessionId, shopifyOrderId |-> NULL]

\* The catch of constructEvent without its return: the handler goes on with
\* the payload.
SignatureErrorIgnored(r) ==
  [r EXCEPT !.pc = "findCart", !.cartKey = metadata[r.session]]

\* stripe.webhooks.constructEvent threw (lines 304-307): 400, and the handler
\* returns.
SignatureError(r) == Responded(r, 400, "badSignature")

\* A request arrives: signature check, event type, cart key (lines 299-324),
\* up to the first await.
Receive(d) ==
  /\ d = received + 1
  /\ d \in Deliveries
  /\ received' = d
  /\ \E sigValid \in BOOLEAN, completed \in BOOLEAN,
        s \in {x \in Sessions : metadata[x] # "absent"} :
       LET cartKey == IF metadata[s] # "none" THEN metadata[s] ELSE UNKNOWN_CART
           r == [NoRequest EXCEPT !.session = s,
                   !.signature = IF sigValid THEN "valid" ELSE "invalid"]
       IN req' = [req EXCEPT ![d] =
            IF ~sigValid THEN SignatureError(r)
            ELSE IF ~completed THEN Responded(r, 200, "otherEvent")
            ELSE IF cartKey = UNKNOWN_CART THEN Responded(r, 400, "unknownCart")
            ELSE [r EXCEPT !.pc = "findCart", !.cartKey = cartKey]]
  /\ UNCHANGED <<carts, orders, forwards, webConfig, botVars, restVars>>

\* Cart.findOne({ cartKey }) settles (lines 328-329, 357-362).
FindCartReturns(d) ==
  LET r == req[d] IN
  /\ r.pc = "findCart"
  /\ \/ req' = [req EXCEPT ![d] = Responded(r, 200, "dbError")]
     \/ req' = [req EXCEPT ![d] =
                  IF r.cartKey \in carts
                  THEN [r EXCEPT !.pc = "deleteCart"]
                  ELSE Responded(r, 200, "cartNotFound")]
  /\ UNCHANGED <<carts, orders, received, forwards, webConfig, botVars, restVars>>

\* Cart.deleteOne({ cartKey }) settles (line 333); Order.create is called.
DeleteCartReturns(d) ==
  LET r == req[d] IN
  /\ r.pc = "deleteCart"
  /\ \/ /\ req' = [req EXCEPT ![d] = Responded(r, 200, "dbError")]
        /\ UNCHANGED carts
     \/ /\ req' = [req EXCEPT ![d] = [r EXCEPT !.pc = "createOrder"]]
        /\ carts' = carts \ {r.cartKey}
  /\ UNCHANGED <<orders, received, forwards, webConfig, botVars, restVars>>

\* sendOrderToZapier up to its await: the cart has items (checked when the
\* cart was stored); an email that fails emailRegex returns before the post.
ForwardsAfterOrder(sessionId) ==
  IF emailValid[sessionId]
  THEN [forwards EXCEPT ![sessionId] = @ + 1]
  ELSE forwards

\* The call of sendOrderToZapier made although Order.create was rejected.
ForwardsDespiteDbError(sessionId) == ForwardsAfterOrder(sessionId)

\* Order.create rejected: control goes to the catch (lines 360-362), past the
\* call of sendOrderToZapier.
ForwardsAfterDbError(sessionId) == forwards

\* Order.create(orderSummary) settles (lines 351-356, 360-364): on success
\* sendOrderToZapier is called (not awaited) and the handler answers.
CreateOrderReturns(d) ==
  LET r == req[d] IN
  /\ r.pc = "createOrder"
  /\ \/ /\ req' = [req EXCEPT ![d] = Responded(r, 200, "dbError")]
        /\ forwards' = ForwardsAfterDbError(r.session)
        /\ UNCHANGED orders
     \/ IF DuplicateKey(r.session)
        THEN /\ req' = [req EXCEPT ![d] = Responded(r, 200, "duplicateKey")]
             /\ forwards' = ForwardsAfterDbError(r.session)
             /\ UNCHANGED orders
        ELSE /\ req' = [req EXCEPT ![d] = Responded(r, 200, "orderCreated")]
             /\ orders' = Append(orders, OrderDocument(r.session))
             /\ forwards' = ForwardsAfterOrder(r.session)
  /\ UNCHANGED <<carts, received, webConfig, botVars, restVars>>

\* The TTL index of cartSchema.createdAt removes a cart after an hour.
CartExpires(cartKey) ==
  /\ cartKey \in carts
  /\ carts' = carts \ {cartKey}
  /\ UNCHANGED <<orders, req, received, forwards, webConfig, botVars, restVars>>

\* The service with the carts of the sessions created by
\* /create-checkout-session; a session with no cart_key metadata is one the
\* service did not create.
WebInit ==
  /\ metadata \in {m \in [Sessions -> {"k1", "k2", "none"}] :
                     \A s \in Sessions : m[s] \in {CartKeyOf[s], "none"}}
  /\ emailValid \in [Sessions -> BOOLEAN]
  /\ carts = {metadata[s] : s \in Sessions} \ {"none"}
  /\ orders = <<>>
  /\ req = [d \in Deliveries |-> NoRequest]
  /\ received = 0
  /\ forwards = [s \in Sessions |-> 0]

WebNext ==
  \/ \E d \in Deliveries : Receive(d)
  \/ \E d \in Deliveries : FindCartReturns(d)
  \/ \E d \in Deliveries : DeleteCartReturns(d)
  \/ \E d \in Deliveries : CreateOrderReturns(d)
  \/ \E cartKey \in {"k1", "k2"} : CartExpires(cartKey)

\* The checkout service before any request, for the specifications of the bot.
WebQuiet ==
  /\ metadata = [s \in Sessions |-> "none"]
  /\ emailValid = [s \in Sessions |-> TRUE]
  /\ carts = {}
  /\ orders = <<>>
  /\ req = [d \in Deliveries |-> NoRequest]
  /\ received = 0
  /\ forwards = [s \in Sessions |-> 0]

\* The bot before its first scan, for the specification of the checkout service.
BotQuiet ==
  /\ BotStart
  /\ isTextBased = {}
  /\ name = [c \in Channels |-> NamePlainAb]
  /\ DEFAULT_PRODUCT_ID = "unknown"
  /\ channel_mapping = [c \in Channels |-> NULL]
  /\ product_mapping = {}

\* ------------------------------------------- the other routes of the service

\* No response sent yet.
NoResponse == [route |-> "none", status |-> 0, error |-> "none", data |-> "none"]

\* res.status(status).json({ error }) / res.status(status).send(error).
ErrorResponse(route, status, error) ==
  [route |-> route, status |-> status, error |-> error, data |-> "none"]

\* res.json(data).
JsonResponse(route, data) ==
  [route |-> route, status |-> 200, error |-> "none", data |-> data]

\* err.message of a failed storage call: text of the driver.
StorageErrors == {"MongoServerSelectionError: connect ECONNREFUSED 10.0.0.5:27017"}

\* err.message of a failed call of the Stripe API: text of the remote service.
UpstreamErrors == {"Invalid API Key provided: sk_live_****************abcd"}

InternalErrors == StorageErrors \cup UpstreamErrors

\* The product ids of the store.
Products == {"p1", "p2"}

\* The values a caller may send as shopifyOrderId.
ShopifyOrderIds == {"o1", "o2"}

\* Order.findOneAndUpdate({ sessionId }, { $set: { shopifyOrderId } }): the
\* first document with this sessionId, 0 when there is none.
FindOrder(sessionId) ==
  IF \E i \in 1..Len(orders) : orders[i].sessionId = sessionId
  THEN CHOOSE i \in 1..Len(orders) :
         /\ orders[i].sessionId = sessionId
         /\ \A j \in 1..(i - 1) : orders[j].sessionId # sessionId
  ELSE 0

\* The update of findOneAndUpdate: $set writes the field whatever it holds.
SetShopifyOrderId(i, shopifyOrderId) ==
  [orders EXCEPT ![i].shopifyOrderId = shopifyOrderId]

\* POST /update-order (lines 396-419), the whole handler: the storage call is
\* its only await and the update is one atomic operation of the database.
UpdateOrder(sessionId, shopifyOrderId) ==
  LET route == "/update-order" IN
  /\ handled < MaxRequests
  /\ handled' = handled + 1
  /\ IF ~Truthy(sessionId) \/ ~Truthy(shopifyOrderId)
     THEN /\ res' = ErrorResponse(route, 400, "Missing sessionId or shopifyOrderId")
          /\ UNCHANGED orders
     ELSE \/ /\ \E message \in StorageErrors : res' = ErrorResponse(route, 500, message)
             /\ UNCHANGED orders
          \/ IF FindOrder(sessionId) = 0
             THEN /\ res' = ErrorResponse(route, 404, "Order not found")
                  /\ UNCHANGED orders
             ELSE /\ orders' = SetShopifyOrderId(FindOrder(sessionId), shopifyOrderId)
                  /\ res' = JsonResponse(route, shopifyOrderId)
  /\ UNCHANGED <<carts, req, received, forwards, webConfig, shopTokens,
                 shopifyTags, botVars, authVars, pureVars>>

\* POST /register-shop (lines 166-189), the whole handler: determineShopId
\* catches its own errors; ShopToken.create stores the token or rejects.
RegisterShop ==
  LET route == "/register-shop" IN
  /\ handled < MaxRequests
  /\ handled' = handled + 1
  /\ \/ /\ \E message \in StorageErrors : res' = ErrorResponse(route, 500, message)
        /\ UNCHANGED shopTokens
     \/ /\ shopTokens' = shopTokens + 1
        /\ res' = JsonResponse(route, "token")
  /\ UNCHANGED <<shopifyTags, webVars, botVars, authVars, pureVars>>

\* cart.currency values a client may send; <<>> when the field is missing.
CurrencyUsd == <<117, 115, 100>>
CurrencyUSD == <<85, 83, 68>>
CurrencyEur == <<101, 117, 114>>
Currencies == {<<>>, CurrencyUsd, CurrencyUSD, CurrencyEur}

\* POST /create-checkout-session (lines 199-286), the whole handler, for the
\* session s that Stripe creates when the handler gets that far: validation,
\* Cart.create with a fresh key, the currency check, then the Stripe calls
\* (coupons.create when the cart has a discount, checkout.sessions.create).
CreateCheckoutSession(s, hasItems, currency) ==
  LET route == "/create-checkout-session"
      cartKey == CartKeyOf[s]
  IN
  /\ handled < MaxRequests
  /\ metadata[s] = "absent"
  /\ cartKey \notin carts
  /\ handled' = handled + 1
  /\ IF ~hasItems \/ currency = <<>>
     THEN /\ res' = ErrorResponse(route, 400, "Cart is empty, invalid, or missing currency")
          /\ UNCHANGED <<carts, metadata>>
     ELSE \/ /\ \E message \in StorageErrors : res' = ErrorResponse(route, 500, message)
             /\ UNCHANGED <<carts, metadata>>
          \/ /\ carts' = carts \cup {cartKey}
             /\ IF ToLowerCase(currency) # CurrencyUsd
                THEN /\ res' = ErrorResponse(route, 400, "Currency must be USD")
                     /\ UNCHANGED metadata
                ELSE \/ /\ \E message \in UpstreamErrors :
                             res' = ErrorResponse(route, 500, message)
                        /\ UNCHANGED metadata
                     \/ /\ metadata' = [metadata EXCEPT ![s] = cartKey]
                        /\ res' = JsonResponse(route, "url")
  /\ UNCHANGED <<orders, req, received, forwards, emailValid, shopTokens,
                 shopifyTags, botVars, authVars, pureVars>>

\* The other routes before any request.
HttpQuiet ==
  /\ handled = 0
  /\ res = NoResponse
  /\ shopTokens = 0
  /\ shopifyTags = [p \in Products |-> "none"]

\* ------------------------------------------------------------------ api.js

\* process.env.API_SECRET, set in the environment of the API server.
API_SECRET == "s3cret"

\* An Authorization header value: the words of the header, <<>> when the
\* header is missing or empty.  `Bearer ${API_SECRET}` is two words.
Bearer(secret) == <<"Bearer", secret>>

AuthHeaders ==
  {<<>>, Bearer(API_SECRET), Bearer("guess"), <<"bearer", API_SECRET>>,
   <<API_SECRET>>}

\* A credential check that accepts any Bearer header.
AuthorizedAnyBearer(auth) == auth # <<>> /\ auth[1] = "Bearer"

\* Line 93, negated: the header is present and is `Bearer ${API_SECRET}`.
Authorized(auth) == auth # <<>> /\ auth = Bearer(API_SECRET)

\* typeof tag === 'string': a body without tag, or with a tag of another
\* type, carries Undefined here.
IsString(v) == v # Undefined /\ v # NULL

\* The request the handler destructures: the header and the two body fields.
Request(auth, tag, productId) == [auth |-> auth, tag |-> tag, productId |-> productId]

\* POST /api/update-product-tag (lines 91-115), the whole handler with
\* updateShopifyProductTag (lines 29-56): the PUT either changes the product's
\* tags and resolves, or fails; a failed PUT may have reached Shopify or not.
UpdateProductTag(auth, tag, productId) ==
  LET route == "/api/update-product-tag" IN
  /\ handled < MaxRequests
  /\ handled' = handled + 1
  /\ args' = Request(auth, tag, productId)
  /\ IF ~Authorized(auth)
     THEN /\ res' = ErrorResponse(route, 401, "Unauthorized")
          /\ UNCHANGED shopifyTags
     ELSE IF ~IsString(tag) \/ ~Truthy(productId)
     THEN /\ res' = ErrorResponse(route, 400, "Invalid tag or missing product id")
          /\ UNCHANGED shopifyTags
     ELSE \/ /\ shopifyTags' = [shopifyTags EXCEPT ![productId] = tag]
             /\ res' = JsonResponse(route, "success")
          \/ /\ res' = ErrorResponse(route, 500, "Internal Server Error")
             /\ \/ UNCHANGED shopifyTags
                \/ shopifyTags' = [shopifyTags EXCEPT ![productId] = tag]
  /\ UNCHANGED <<shopTokens, ret, botVars, authVars, webVars>>

ApiNext ==
  \E auth \in AuthHeaders, tag \in {"working", "down", Undefined},
     productId \in Products \cup {NULL} :
    UpdateProductTag(auth, tag, productId)

\* --------------------------------------------------- the !auth conversation

MaxMessages == 3

Users == {"u1", "u2"}

\* message.content as its words: the command, an order number with a session
\* id (the pair the order-validation route knows, and one it does not), and
\* one word.
AuthCommand == <<"!auth">>
Contents == {AuthCommand, <<"o1", "s1">>, <<"o1", "s2">>, <<"hello">>}

\* What GET /order-validation answers valid for.
ValidPairs == {<<"o1", "s1">>}

\* response.data.license_keys of the downloads API for an order that has keys.
LicenseKeys == <<"key1", "key2">>

\* The timeout of line 38. The clock of the model shows three instants: the
\* start, the timeout later (not yet timed out) and twice the timeout later.
TimeoutMs == 10 * 60 * 1000
ClockStep == TimeoutMs
LastInstant == 2 * TimeoutMs

Messages == 1..MaxMessages

\* userState.get(userId) of a user without an entry.
NoState == [stage |-> "absent", timestamp |-> 0]

\* A message that was not sent yet.
NoRun ==
  [pc |-> "none", author |-> "none", content |-> <<>>, at |-> 0,
   orderNumber |-> "none", sessionId |-> "none", validation |-> "none",
   keysSent |-> 0, outcome |-> "none"]

\* No license key.
NoKey == "none"

\* message.reply(text) and dmChannel.send(text) as entries of the outbox.
Reply(m, r, text) == [run |-> m, to |-> r.author, via |-> "reply", text |-> text, key |-> NoKey]
DirectMessage(m, r, text, key) ==
  [run |-> m, to |-> r.author, via |-> "dm", text |-> text, key |-> key]

\* handleAuthCommand returned.
Finished(r, outcome) == [r EXCEPT !.pc = "done", !.outcome = outcome]

\* Time passes.
Elapse ==
  /\ now < LastInstant
  /\ now' = now + ClockStep
  /\ UNCHANGED <<userState, run, seen, outbox, botVars, webVars, httpVars, pureVars>>

\* The bot hands a message to handleAuthCommand: the function up to its first
\* await (lines 18-52).
HandleAuthCommand(m, u, content) ==
  LET r == [NoRun EXCEPT !.author = u, !.content = content, !.at = now]
      state == userState[u]
  IN
  /\ m = seen + 1
  /\ m \in Messages
  /\ seen' = m
  /\ IF content = AuthCommand
     THEN /\ userState' = [userState EXCEPT ![u] =
                             [stage |-> "awaiting_input", timestamp |-> now]]
          /\ run' = [run EXCEPT ![m] = Finished(r, "prompted")]
          /\ outbox' = outbox \cup {Reply(m, r, "prompt")}
     ELSE IF state.stage # "awaiting_input"
     THEN /\ run' = [run EXCEPT ![m] = Finished(r, "notInFlow")]
          /\ UNCHANGED <<userState, outbox>>
     ELSE IF now - state.timestamp > TimeoutMs
     THEN /\ userState' = [userState EXCEPT ![u] = NoState]
          /\ run' = [run EXCEPT ![m] = Finished(r, "timedOut")]
          /\ outbox' = outbox \cup {Reply(m, r, "timedOut")}
     ELSE IF Len(content) # 2
     THEN /\ run' = [run EXCEPT ![m] = Finished(r, "invalidFormat")]
          /\ outbox' = outbox \cup {Reply(m, r, "invalidFormat")}
          /\ UNCHANGED userState
     ELSE /\ run' = [run EXCEPT ![m] =
                       [r EXCEPT !.pc = "replying", !.orderNumber = content[1],
                                 !.sessionId = content[2]]]
          /\ UNCHANGED <<userState, outbox>>
  /\ UNCHANGED <<now, botVars, webVars, httpVars, pureVars>>

\* The catch (lines 86-90): the error reply is sent and the entry deleted.
Caught(m) ==
  LET r == run[m] IN
  /\ run' = [run EXCEPT ![m] = Finished(r, "error")]
  /\ userState' = [userState EXCEPT ![r.author] = NoState]
  /\ outbox' = outbox \cup {Reply(m, r, "error")}

\* await message.reply('Verifying ...') settles (line 53); validateOrderSession
\* is called.
VerifyingReplySettles(m) ==
  LET r == run[m] IN
  /\ r.pc = "replying"
  /\ \/ Caught(m)
     \/ /\ run' = [run EXCEPT ![m] = [r EXCEPT !.pc = "validating"]]
        /\ outbox' = outbox \cup {Reply(m, r, "verifying")}
        /\ UNCHANGED userState
  /\ UNCHANGED <<seen, now, botVars, webVars, httpVars, pureVars>>

\* The test of line 58 passing whatever validateOrderSession returned.
ValidationPassesAlways(validation) == TRUE

\* The test of line 58: validationResult.valid.
ValidationPasses(validation) == validation = "valid"

\* validateOrderSession returns (lines 99-116): what the route answered, or
\* { valid: false } when the request failed.
ValidationReturns(m) ==
  LET r == run[m] IN
  /\ r.pc = "validating"
  /\ \E validation \in IF <<r.orderNumber, r.sessionId>> \in ValidPairs
                       THEN {"valid", "invalid"} ELSE {"invalid"} :
       IF ValidationPasses(validation)
       THEN /\ run' = [run EXCEPT ![m] =
                         [r EXCEPT !.pc = "fetching", !.validation = validation]]
            /\ UNCHANGED <<userState, outbox>>
       ELSE /\ run' = [run EXCEPT ![m] =
                         Finished([r EXCEPT !.validation = validation], "invalid")]
            /\ userState' = [userState EXCEPT ![r.author] = NoState]
            /\ outbox' = outbox \cup {Reply(m, r, "invalid")}
  /\ UNCHANGED <<seen, now, botVars, webVars, httpVars, pureVars>>

\* fetchLicenseKey returns (lines 64-66, 79-81): with keys createDM is called,
\* without the warning is replied.
FetchReturns(m) ==
  LET r == run[m] IN
  /\ r.pc = "fetching"
  /\ \E success \in BOOLEAN :
       run' = [run EXCEPT ![m] =
                 [r EXCEPT !.pc = IF success THEN "openingDM" ELSE "replyingWarning"]]
  /\ UNCHANGED <<userState, seen, now, outbox, botVars, webVars, httpVars, pureVars>>

\* await message.author.createDM() and the await dmChannel.send of the
\* heading settle (lines 68-70).
OpenDMSettles(m) ==
  LET r == run[m] IN
  /\ r.pc = "openingDM"
  /\ \/ Caught(m)
     \/ /\ run' = [run EXCEPT ![m] = [r EXCEPT !.pc = "sendingKey"]]
        /\ outbox' = outbox \cup {DirectMessage(m, r, "header", NoKey)}
        /\ UNCHANGED userState
  /\ UNCHANGED <<seen, now, botVars, webVars, httpVars, pureVars>>

\* await dmChannel.send(key) of the loop settles (lines 73-75).
KeySendSettles(m) ==
  LET r == run[m] IN
  /\ r.pc = "sendingKey"
  /\ \/ Caught(m)
     \/ /\ run' = [run EXCEPT ![m] =
                     [r EXCEPT !.keysSent = @ + 1,
                               !.pc = IF r.keysSent + 1 < Len(LicenseKeys)
                                      THEN "sendingKey" ELSE "replyingSuccess"]]
        /\ outbox' = outbox \cup {DirectMessage(m, r, "key", LicenseKeys[r.keysSent + 1])}
        /\ UNCHANGED userState
  /\ UNCHANGED <<seen, now, botVars, webVars, httpVars, pureVars>>

\* The last await message.reply settles (line 78 or 80); the entry is deleted
\* (line 84).
LastReplySettles(m) ==
  LET r == run[m]
      text == IF r.pc = "replyingSuccess" THEN "success" ELSE "warning"
  IN
  /\ r.pc \in {"replyingSuccess", "replyingWarning"}
  /\ \/ Caught(m)
     \/ /\ run' = [run EXCEPT ![m] =
                     Finished(r, IF r.pc = "replyingSuccess" THEN "delivered" ELSE "noKeys")]
        /\ userState' = [userState EXCEPT ![r.author] = NoState]
        /\ outbox' = outbox \cup {Reply(m, r, text)}
  /\ UNCHANGED <<seen, now, botVars, webVars, httpVars, pureVars>>

\* The bot after start: the Map is empty.
AuthInit ==
  /\ userState = [u \in Users |-> NoState]
  /\ run = [m \in Messages |-> NoRun]
  /\ seen = 0
  /\ now = 0
  /\ outbox = {}

AuthQuiet == AuthInit

AuthNext ==
  \/ Elapse
  \/ \E m \in Messages, u \in Users, content \in Contents : HandleAuthCommand(m, u, content)
  \/ \E m \in Messages : VerifyingReplySettles(m)
  \/ \E m \in Messages : ValidationReturns(m)
  \/ \E m \in Messages : FetchReturns(m)
  \/ \E m \in Messages : OpenDMSettles(m)
  \/ \E m \in Messages : KeySendSettles(m)
  \/ \E m \in Messages : LastReplySettles(m)

\* No function applied on its own.
NoReturn == "<none>"

PureQuiet == args = NoReturn /\ ret = NoReturn

\* The checkout service after it created one session (cart k1 stored); the
\* other session id is not in use yet.
CheckoutInit ==
  /\ metadata = [s \in Sessions |-> IF s = "s1" THEN "k1" ELSE "absent"]
  /\ emailValid = [s \in Sessions |-> TRUE]
  /\ carts = {"k1"}
  /\ orders = <<>>
  /\ req = [d \in Deliveries |-> NoRequest]
  /\ received = 0
  /\ forwards = [s \in Sessions |-> 0]

CheckoutNext ==
  \/ WebNext
  \/ RegisterShop
  \/ \E s \in Sessions, hasItems \in BOOLEAN, currency \in Currencies :
       CreateCheckoutSession(s, hasItems, currency)
  \/ \E sessionId \in Sessions \cup {NULL}, shopifyOrderId \in ShopifyOrderIds \cup {NULL} :
       UpdateOrder(sessionId, shopifyOrderId)

vars == <<botVars, webVars, httpVars, pureVars, authVars>>

Init == BotInit /\ WebQuiet /\ HttpQuiet /\ AuthQuiet /\ PureQuiet
Next == BotNext
Spec == Init /\ [][Next]_vars

InitGuilds == GuildsInit /\ WebQuiet /\ HttpQuiet /\ AuthQuiet /\ PureQuiet
SpecGuilds == InitGuilds /\ [][GuildsNext]_vars

InitWebhook == WebInit /\ BotQuiet /\ HttpQuiet /\ AuthQuiet /\ PureQuiet
SpecWebhook == InitWebhook /\ [][WebNext]_vars

InitAuth == AuthInit /\ BotQuiet /\ WebQuiet /\ HttpQuiet /\ PureQuiet
SpecAuth == InitAuth /\ [][AuthNext]_vars

\* ------------------------------------- the classifier and the title lookup

\* U+1F600, a glyph of the class of removeEmojis that is none of the three
\* status glyphs, and U+2705 (white heavy check mark), a pictographic glyph
\* outside that class.
GrinningFace == 128512
CheckMark == 9989

\* 'TEST', 'Update', 'ab', 'AB'
KwTestUpper == <<84, 69, 83, 84>>
KwUpdateMixed == <<85, 112, 100, 97, 116, 101>>
WordAb == <<97, 98>>
WordAB == <<65, 66>>

\* What the sampled channel names are made of.
Pieces ==
  {<<WorkingEmoji>>, <<DownEmoji>>, <<UpdatingEmoji>>, <<GrinningFace>>,
   <<CheckMark>>, <<32>>, KwWork, KwTestUpper, KwUpdateMixed, WordAb, WordAB}

\* The concatenations of at most n pieces.
RECURSIVE NamesOf(_)
NamesOf(n) ==
  IF n = 0 THEN {<<>>}
  ELSE NamesOf(n - 1) \cup {p \o r : p \in Pieces, r \in NamesOf(n - 1)}

\* A stored title that itself starts with a glyph of the class: "<green>ab".
TitleGreenAb == <<WorkingEmoji, 97, 98>>

\* Neither function applied yet.
NotApplied == [tag |-> "none", productId |-> "none"]

\* determineTagFromChannel applied to the sampled name.
Classify ==
  /\ ret.tag = "none"
  /\ ret' = [ret EXCEPT !.tag = determineTagFromChannel(args.channelName)]
  /\ UNCHANGED <<args, httpVars, botVars, authVars, webVars>>

\* getProductIdForTitle(removeEmojis(channelName).toLowerCase()) (lines
\* 179-180) applied to the sampled name: db.get calls back with a row, with
\* no row, or with an error (the promise rejects).
LookupByTitle ==
  /\ ret.productId = "none"
  /\ \/ \E productId \in getProductIdForTitle(TitleQuery(args.channelName)) :
          ret' = [ret EXCEPT !.productId = productId]
     \/ ret' = [ret EXCEPT !.productId = "rejected"]
  /\ UNCHANGED <<args, httpVars, botVars, authVars, webVars>>

\* Any sampled channel name; product_mapping holds one title: "Ab", or a
\* title that starts with a glyph.
ClassifierInit ==
  /\ BotStart
  /\ isTextBased = {}
  /\ name = [c \in Channels |-> NamePlainAb]
  /\ DEFAULT_PRODUCT_ID = "unknown"
  /\ channel_mapping = [c \in Channels |-> NULL]
  /\ product_mapping \in
       {{[title |-> TitleAb, product_id |-> "p2"]},
        {[title |-> TitleGreenAb, product_id |-> "p1"]}}
  /\ args \in [channelName : NamesOf(MaxPieces) \ {<<>>}]
  /\ ret = NotApplied

ClassifierNext == Classify \/ LookupByTitle

\* ------------------------------------------------------ the import script

\* ':', '\n', '/', '-'
Colon == 58
LineFeed == 10
Slash == 47
Dash == 45

\* String.prototype.split with a one-character separator.
RECURSIVE Split(_, _)
Split(s, sep) ==
  IF ~HasCodePoint(s, sep) THEN <<s>>
  ELSE LET i == CHOOSE i \in 1..Len(s) :
                  s[i] = sep /\ \A j \in 1..(i - 1) : s[j] # sep
       IN <<SubSeq(s, 1, i - 1)>> \o Split(SubSeq(s, i + 1, Len(s)), sep)

\* String.prototype.startsWith
StartsWith(s, prefix) ==
  Len(s) >= Len(prefix) /\ SubSeq(s, 1, Len(prefix)) = prefix

\* The callback of filter (lines 13-16): the trimmed line is not empty and
\* starts with neither '//' nor '-'; the line itself is kept untrimmed.
KeepLine(line) ==
  LET t == Trim(line)
  IN t # <<>> /\ ~StartsWith(t, <<Slash, Slash>>) /\ ~StartsWith(t, <<Dash>>)

\* data.split('\n').filter(...)
FilteredLines(data) == SelectSeq(Split(data, LineFeed), KeepLine)

\* INSERT OR REPLACE INTO product_mapping: title is the primary key, compared
\* byte by byte.
ReplaceProduct(table, title, shopifyId, channelId) ==
  {r \in table : r.title # title}
    \cup {[title |-> title, product_id |-> shopifyId, channel_id |-> channelId]}

\* INSERT OR REPLACE INTO channel_mapping: channel_id is the primary key.
ReplaceChannel(table, channelId, shopifyId) ==
  {r \in table : r.channel_id # channelId}
    \cup {[channel_id |-> channelId, product_id |-> shopifyId]}

\* The import before the file is read: both tables empty.
NotImported(data) ==
  [lines |-> FilteredLines(data), pos |-> 0, log |-> <<>>,
   product_mapping |-> {}, channel_mapping |-> {}]

\* A malformed line that ends the import.
SkipLineAborts(r) ==
  [r EXCEPT !.pos = Len(r.lines), !.log = Append(@, "skipped")]

\* The else branch of the callback of forEach (lines 44-46): a warning, and
\* the loop goes on.
SkipLine(r) == [r EXCEPT !.pos = @ + 1, !.log = Append(@, "skipped")]

\* The callback of forEach for the next line (lines 24-46) and the two
\* statements it queues, run by the database in this order; each statement
\* stores its row or fails, and a failure is logged (lines 32-34, 40-42).
ImportLine ==
  /\ ret.pos < Len(ret.lines)
  /\ LET line == ret.lines[ret.pos + 1]
         parts == Split(line, Colon)
     IN IF Len(parts) >= 3
        THEN LET title == Trim(parts[1])
                 shopifyId == Trim(parts[2])
                 channelId == Trim(parts[3])
             IN \E productStored \in BOOLEAN, channelStored \in BOOLEAN :
                  ret' = [ret EXCEPT
                    !.pos = @ + 1,
                    !.log = Append(@, IF productStored /\ channelStored
                                      THEN "stored" ELSE "failed"),
                    !.product_mapping =
                       IF productStored
                       THEN ReplaceProduct(@, title, shopifyId, channelId)
                       ELSE @,
                    !.channel_mapping =
                       IF channelStored
                       THEN ReplaceChannel(@, channelId, shopifyId)
                       ELSE @]
        ELSE ret' = SkipLine(ret)
  /\ UNCHANGED <<args, httpVars, botVars, authVars, webVars>>

\* 'Ab:1:c', 'ab : 2 : d' (the same title in lower case), 'x:4:c' (another
\* title for the same channel), 'Ab:3' (two fields), '' and '  ' (blank),
\* '//x:9:e' and ' -x:9:e' (comments).
LineAb == <<65, 98, Colon, 49, Colon, 99>>
LineAbLower == <<97, 98, 32, Colon, 32, 50, 32, Colon, 32, 100>>
LineX == <<120, Colon, 52, Colon, 99>>
LineTwoFields == <<65, 98, Colon, 51>>
LineBlank == <<32, 32>>
LineSlashes == <<Slash, Slash, 120, Colon, 57, Colon, 101>>
LineDash == <<32, Dash, 120, Colon, 57, Colon, 101>>

SampleLines ==
  {LineAb, LineAbLower, LineX, LineTwoFields, <<>>, LineBlank, LineSlashes,
   LineDash}

\* The files of n lines, joined with '\n'.
RECURSIVE FilesOf(_)
FilesOf(n) ==
  IF n = 1 THEN SampleLines
  ELSE FilesOf(n - 1)
         \cup {f \o <<LineFeed>> \o l : f \in FilesOf(n - 1), l \in SampleLines}

\* fs.readFile called back with the text of the mapping file.
ImportInit ==
  /\ args \in [data : FilesOf(MaxLines)]
  /\ ret = NotImported(args.data)

ImportNext == ImportLine

\* ------------------------------------------------------ sendOrderToZapier

\* item.quantity || 1.
Quantity(item) == IF item.quantity = 0 THEN 1 ELSE item.quantity

\* Math.round(Number(item.price) * 100): an item carries its price as the
\* number of cents of a two-decimal price, for which this product rounds to
\* that number.
OriginalUnitCents(item) == item.cents

OriginalItemTotal(item) == OriginalUnitCents(item) * Quantity(item)

\* cartData.items.reduce(...): the sum of the item totals.
RECURSIVE ReduceItems(_)
ReduceItems(items) ==
  IF items = <<>> THEN 0
  ELSE OriginalItemTotal(items[1]) + ReduceItems(Tail(items))

\* session.amount_subtotal || the sum over the cart.
SubtotalCents(session, items) ==
  IF session.amount_subtotal # 0 THEN session.amount_subtotal
  ELSE ReduceItems(items)

\* subtotalCents - (session.amount_total || subtotalCents).
DiscountCents(session, items) ==
  SubtotalCents(session, items)
    - (IF session.amount_total # 0 THEN session.amount_total
       ELSE SubtotalCents(session, items))

\* Truncation in place of rounding.
MathFloor(n, d) == {n \div d}

\* Math.round(x) for the double x the code computes for n / d (d > 0):
\* floor(x + 1/2).  When n / d lies exactly halfway between two integers the
\* double product may fall below the half, so both neighbours are possible.
MathRound(n, d) ==
  LET k == (2 * n + d) \div (2 * d)
  IN IF (2 * n + d) % (2 * d) = 0 THEN {k - 1, k} ELSE {k}

\* (x / 100).toFixed(2) for x = n / d cents, as a number of cents: the
\* nearest cent; at a half cent the double nearest to x / 100 decides, so
\* both neighbours are possible.
ToFixed2(n, d) ==
  LET k == (2 * n + d) \div (2 * d)
  IN IF (2 * n + d) % (2 * d) = 0 THEN {k - 1, k} ELSE {k}

\* The values itemDiscount may take for one item (line 449).
ItemDiscounts(session, items, item) ==
  IF SubtotalCents(session, items) > 0
  THEN MathRound(OriginalItemTotal(item) * DiscountCents(session, items),
                 SubtotalCents(session, items))
  ELSE {0}

\* One element of final_line_items (lines 445-459) with the locals it was
\* computed from; prices are in cents.
LineItem(item, itemDiscount, final_price) ==
  [quantity |-> Quantity(item),
   original_price |-> OriginalUnitCents(item),
   itemDiscount |-> itemDiscount,
   finalItemTotal |-> OriginalItemTotal(item) - itemDiscount,
   final_price |-> final_price]

\* The values the callback of cartData.items.map may return for one item.
LineItems(session, items, item) ==
  UNION {{LineItem(item, d, f) :
            f \in ToFixed2(OriginalItemTotal(item) - d, Quantity(item))} :
         d \in ItemDiscounts(session, items, item)}

\* The values cartData.items.map(...) may return.
FinalLineItems(session, items) ==
  {lines \in [1..Len(items) ->
               UNION {LineItems(session, items, items[i]) : i \in 1..Len(items)}] :
     \A i \in 1..Len(items) : lines[i] \in LineItems(session, items, items[i])}

\* sendOrderToZapier has not been called.
NotCalled == [called |-> FALSE, subtotalCents |-> 0, discountCents |-> 0,
              final_line_items |-> <<>>]

\* sendOrderToZapier(session, cartData, shopId) up to the payload (lines
\* 425-459), for a cart with items.
SendOrderToZapier ==
  /\ ~ret.called
  /\ \E lines \in FinalLineItems(args.session, args.items) :
       ret' = [called |-> TRUE,
               subtotalCents |-> SubtotalCents(args.session, args.items),
               discountCents |-> DiscountCents(args.session, args.items),
               final_line_items |-> lines]
  /\ UNCHANGED <<args, httpVars, botVars, authVars, webVars>>

\* The prices, in cents, of the items of the carts below.
UnitCents == {0, 1, 3}

Items == [cents : UnitCents, quantity : 1..MaxQuantity]

\* The cart and the session of the scenario: 10.00 x 2 and 5.00 x 1, paid
\* 20.00 of 25.00.
ScenarioCall ==
  [session |-> [amount_subtotal |-> 2500, amount_total |-> 2000],
   items |-> <<[cents |-> 1000, quantity |-> 2], [cents |-> 500, quantity |-> 1]>>]

\* Carts of one or two items with a session whose amount_subtotal is the
\* cart's sum or is absent, and the scenario.
AllocatorInit ==
  /\ ret = NotCalled
  /\ \/ args = ScenarioCall
     \/ \E items \in {<<a>> : a \in Items} \cup {<<a, b>> : a \in Items, b \in Items},
           amount_total \in 0..MaxAmount, given \in BOOLEAN :
          args = [session |-> [amount_subtotal |->
                                 IF given THEN ReduceItems(items) ELSE 0,
                               amount_total |-> amount_total],
                  items |-> items]

AllocatorNext == SendOrderToZapier

InitApi == BotQuiet /\ WebQuiet /\ HttpQuiet /\ AuthQuiet /\ PureQuiet
SpecApi == InitApi /\ [][ApiNext]_vars

InitAllocator == AllocatorInit /\ BotQuiet /\ WebQuiet /\ HttpQuiet /\ AuthQuiet
SpecAllocator == InitAllocator /\ [][AllocatorNext]_vars

InitClassifier == ClassifierInit /\ WebQuiet /\ HttpQuiet /\ AuthQuiet
SpecClassifier == InitClassifier /\ [][ClassifierNext]_vars

InitImport == ImportInit /\ BotQuiet /\ WebQuiet /\ HttpQuiet /\ AuthQuiet
SpecImport == InitImport /\ [][ImportNext]_vars

InitCheckout == CheckoutInit /\ BotQuiet /\ HttpQuiet /\ AuthQuiet /\ PureQuiet
SpecCheckout == InitCheckout /\ [][CheckoutNext]_vars

\* ------------------------------------------------------ claims: the scan

\* The step of the model is the timer firing.
IsTick == cycles' = cycles + 1

\* This step is task (k, c) returning from an await.
Advances(k, c) == task[k][c].pc \notin {"idle", "done"} /\ task'[k][c] # task[k][c]

\* C1: when the channel-id lookup and the title lookup of a channel both
\* resolve with no row, the step in which the title lookup returns sets the
\* channel's cache entry to "ignored" (in that same cycle, after the one
\* channel-id and the one title lookup) and the function returns without
\* having called updateProductStatus.
C1_NoMappingMarksIgnored ==
  [][\A k \in Cycles, c \in Channels :
       ( /\ task[k][c].pc = "lookupTitle"
         /\ Advances(k, c)
         /\ task'[k][c].outcome # "dbError"
         /\ channel_mapping[c] = NULL
         /\ getProductIdForTitle(TitleQuery(task[k][c].channelName)) = {NULL} )
       => /\ channelStatusCache'[c] = "ignored"
          /\ task'[k][c].pc = "done"
          /\ task'[k][c].lookups = 2
          /\ task'[k][c].sink = "none"]_vars

C1_Witness ==
  \E k \in Cycles, c \in Channels :
    /\ task[k][c].outcome = "markedIgnored"
    /\ channel_mapping[c] = NULL
    /\ channelStatusCache[c] = "ignored"

\* C2: "ignored" is terminal: a cache entry that is "ignored" stays "ignored"
\* in every later state, and a cycle that starts while it is "ignored" returns
\* at once for that channel (no lookup, no update).
C2_IgnoredIsTerminal ==
  [][\A c \in Channels :
       channelStatusCache[c] = "ignored"
       => /\ channelStatusCache'[c] = "ignored"
          /\ (IsTick /\ c \in isTextBased)
               => task'[cycles'][c] = Returned(0, "none", "skipIgnored")]_vars

\* C3: when the timer fires and the tag computed from a channel's name equals
\* its cached tag, the function returns at once for that channel: no lookup,
\* no call of updateProductStatus, the cache entry unchanged; and a function
\* that returned this way does nothing later.
C3_SameTagIsNoOp ==
  [][/\ IsTick
        => \A c \in isTextBased :
             channelStatusCache[c] = determineTagFromChannel(name[c])
             => /\ task'[cycles'][c].pc = "done"
                /\ task'[cycles'][c].lookups = 0
                /\ task'[cycles'][c].sink = "none"
                /\ channelStatusCache'[c] = channelStatusCache[c]
     /\ \A k \in Cycles, c \in Channels :
          task[k][c].outcome = "noChange" => task'[k][c] = task[k][c]]_vars

C3_Witness ==
  \E k \in Cycles, c \in Channels :
    /\ task[k][c].outcome = "noChange"
    /\ task[k][c].lookups = 0
    /\ channelStatusCache[c] = determineTagFromChannel(name[c])

\* C4: the cache never holds "unknown"; when the tag is "unknown" and the
\* mapping resolves, the function returns without calling updateProductStatus
\* and without writing the cache; and when the timer fires for a channel whose
\* tag is not "unknown" and differs from the cached value (not "ignored"), the
\* channel is looked up.
C4_UnknownNeverCached ==
  /\ [](\A c \in Channels : channelStatusCache[c] # "unknown")
  /\ [][/\ \A k \in Cycles, c \in Channels :
             (Advances(k, c) /\ task[k][c].newTag = "unknown"
                /\ task'[k][c].pc = "done"
                /\ task'[k][c].outcome \notin {"dbError", "markedIgnored"})
             => /\ task'[k][c].outcome = "unknownTag"
                /\ task'[k][c].sink = "none"
                /\ channelStatusCache' = channelStatusCache
        /\ IsTick
           => \A c \in isTextBased :
                (/\ determineTagFromChannel(name[c]) # "unknown"
                 /\ channelStatusCache[c] # "ignored"
                 /\ channelStatusCache[c] # determineTagFromChannel(name[c]))
                => task'[cycles'][c].pc = "lookupChannel"]_vars

C4_Witness ==
  \E k1 \in Cycles, k2 \in Cycles, c \in Channels :
    /\ k1 < k2
    /\ task[k1][c].outcome = "unknownTag"
    /\ task[k2][c].outcome = "cached"
    /\ channelStatusCache[c] \in Tags

\* C5: a request in flight carries the tag computed from the channel name the
\* function read, that name as title, and the product id the lookups resolved;
\* and a cache entry changes to a tag only in the step in which
\* updateProductStatus returned to a function that computed this tag (for a
\* request: after it settled).
C5_ClassifyResolveEmitCache ==
  /\ [](\A k \in Cycles, c \in Channels :
          task[k][c].pc = "push"
          => LET t == task[k][c]
                 u == task[k][c].payload
             IN /\ u.title = t.channelName
                /\ u.tag = determineTagFromChannel(u.title)
                /\ u.tag = t.newTag
                /\ u.productId = t.productId
                /\ Truthy(u.productId)
                /\ u.productId \in {channel_mapping[c]}
                                     \cup getProductIdForTitle(TitleQuery(u.title))
                /\ t.lookups >= 1)
  /\ [][\A c \in Channels :
          (channelStatusCache'[c] # channelStatusCache[c]
             /\ channelStatusCache'[c] \in Tags)
          => \E k \in Cycles :
               /\ Advances(k, c)
               /\ task[k][c].newTag = channelStatusCache'[c]
               /\ task'[k][c].pc = "done"
               /\ task'[k][c].sink \in {"ok", "failed", "skipped"}
               /\ task'[k][c].sink \in {"ok", "failed"} => task[k][c].pc = "push"]_vars

C5_Witness ==
  \E k \in Cycles, c \in Channels :
    /\ task[k][c].sink = "ok"
    /\ task[k][c].lookups = 2
    /\ channelStatusCache[c] = "working"

\* C6: when the request of updateProductStatus fails, the function returns
\* with the cache entry set to the tag it pushed; a function that returned
\* makes no further request; and when the timer fires later while the tag is
\* still the cached one, the function returns at once without a request.
C6_FailedPushStillCached ==
  [][/\ \A k \in Cycles, c \in Channels :
          (task[k][c].pc = "push" /\ task'[k][c].sink = "failed")
          => /\ task'[k][c].pc = "done"
             /\ channelStatusCache'[c] = task[k][c].newTag
     /\ \A k \in Cycles, c \in Channels :
          task[k][c].pc = "done" => task'[k][c] = task[k][c]
     /\ IsTick
        => \A c \in isTextBased :
             (/\ \E k \in Cycles : task[k][c].sink = "failed"
              /\ channelStatusCache[c] = determineTagFromChannel(name[c]))
             => /\ task'[cycles'][c].pc = "done"
                /\ task'[cycles'][c].sink = "none"]_vars

C6_Witness ==
  \E k1 \in Cycles, k2 \in Cycles, c \in Channels :
    /\ k1 < k2
    /\ task[k1][c].sink = "failed"
    /\ task[k2][c].outcome = "noChange"

\* C7: when a lookup fails with a storage error, the function returns with
\* the cache unchanged and without calling updateProductStatus; and when the
\* timer fires later for a channel that had such an error, is not "ignored"
\* and whose tag differs from the cached one, the channel is looked up again.
C7_StorageErrorSkipsCycleOnly ==
  [][/\ \A k \in Cycles, c \in Channels :
          (Advances(k, c) /\ task'[k][c].outcome = "dbError")
          => /\ channelStatusCache' = channelStatusCache
             /\ task'[k][c].pc = "done"
             /\ task'[k][c].sink = "none"
     /\ IsTick
        => \A c \in isTextBased :
             (/\ \E k \in Cycles : task[k][c].outcome = "dbError"
              /\ channelStatusCache[c] # "ignored"
              /\ channelStatusCache[c] # determineTagFromChannel(name[c]))
             => task'[cycles'][c].pc = "lookupChannel"]_vars

C7_Witness ==
  \E k1 \in Cycles, k2 \in Cycles, c \in Channels :
    /\ k1 < k2
    /\ task[k1][c].outcome = "dbError"
    /\ task[k2][c].lookups >= 1
    /\ channelStatusCache[c] # "ignored"

\* C8: a step of one channel's function changes neither the cache entry nor
\* the functions of any other channel; whatever the other functions returned
\* with, a function that awaits can take its step, and the timer can fire
\* again.
C8_ChannelsAreIndependent ==
  /\ [][\A c \in Channels :
          (\E k \in Cycles : Advances(k, c))
          => \A d \in Channels \ {c} :
               /\ channelStatusCache'[d] = channelStatusCache[d]
               /\ \A k \in Cycles : task'[k][d] = task[k][d]]_vars
  /\ [](\A k \in Cycles, c \in Channels :
          /\ task[k][c].pc = "lookupChannel" => ENABLED ChannelLookupReturns(k, c)
          /\ task[k][c].pc = "lookupTitle" => ENABLED TitleLookupReturns(k, c)
          /\ task[k][c].pc = "push" => ENABLED PushReturns(k, c))
  /\ [](cycles < MaxCycles => ENABLED Tick)

C8_Witness ==
  /\ GuildOf["c1"] # GuildOf["c2"]
  /\ task[1]["c1"].outcome = "dbError"
  /\ task[1]["c2"].sink = "failed"
  /\ task[2]["c1"].sink = "ok"
  /\ channelStatusCache["c1"] = "working"
  /\ channelStatusCache["c2"] = "down"

\* C9 as stated: the title lookup is made only when the channel-id lookup
\* found no row, and when a row exists in both tables the request carries the
\* product id of the channel_mapping row.
C9_ChannelIdFirst ==
  \A k \in Cycles, c \in Channels :
    /\ task[k][c].lookups = 2 => channel_mapping[c] = NULL
    /\ (/\ task[k][c].pc = "push"
        /\ channel_mapping[c] # NULL
        /\ getProductIdForTitle(TitleQuery(task[k][c].channelName)) # {NULL})
       => task[k][c].payload.productId = channel_mapping[c]

\* C9 amended: the title lookup is made only when the channel-id lookup found
\* no row or a row with an empty product id; its argument is the channel name
\* without the glyphs of removeEmojis, trimmed and in lower case; and when the
\* channel_mapping row has a non-empty product id, the request carries it and
\* no title lookup was made.
C9_ChannelIdFirstUnlessEmpty ==
  \A k \in Cycles, c \in Channels :
    LET t == task[k][c] IN
    /\ t.lookups = 2 => ~Truthy(channel_mapping[c])
    /\ t.pc = "lookupTitle"
       => /\ \A i \in 1..Len(t.titleQuery) :
               /\ ~IsStrippedGlyph(t.titleQuery[i])
               /\ t.titleQuery[i] \notin 65..90
          /\ t.titleQuery # <<>>
             => /\ ~IsWhiteSpace(t.titleQuery[1])
                /\ ~IsWhiteSpace(t.titleQuery[Len(t.titleQuery)])
          /\ t.titleQuery = TitleQuery(t.channelName)
    /\ (t.pc = "push" /\ Truthy(channel_mapping[c]))
       => /\ t.payload.productId = channel_mapping[c]
          /\ t.lookups = 1

C9_Witness ==
  \E k \in Cycles, c \in Channels :
    /\ task[k][c].pc = "push"
    /\ Truthy(channel_mapping[c])
    /\ getProductIdForTitle(TitleQuery(task[k][c].channelName)) = {"p2"}
    /\ task[k][c].payload.productId = "p1"

\* ------------------------------------------- claims: the checkout service

\* The Order documents stored for a session.
OrdersOf(s) == {i \in 1..Len(orders) : orders[i].sessionId = s}

\* C10: at most one Order per session id is ever stored, and every delivery
\* of a completed-checkout event (valid signature, a session with its cart
\* key) is answered 200, also when another delivery stored the order first
\* or the insert hit the unique index.
C10_OneOrderPerSession ==
  /\ \A s \in Sessions : Cardinality(OrdersOf(s)) <= 1
  /\ \A d \in Deliveries :
       (req[d].pc = "responded" /\ req[d].cartKey # "none") => req[d].status = 200
  /\ \A d \in Deliveries :
       req[d].result = "orderCreated" => OrdersOf(req[d].session) # {}

C10_Witness ==
  \E d1 \in Deliveries, d2 \in Deliveries :
    /\ d1 # d2
    /\ req[d1].session = req[d2].session
    /\ req[d1].result = "orderCreated"
    /\ req[d2].result = "duplicateKey"
    /\ req[d2].status = 200
    /\ Cardinality(OrdersOf(req[d1].session)) = 1

\* C11: once an order's shopifyOrderId is set, no later step changes it.
C11_ShopifyOrderIdSetOnce ==
  [][\A i \in 1..Len(orders) :
       orders[i].shopifyOrderId # NULL
       => orders'[i].shopifyOrderId = orders[i].shopifyOrderId]_vars

\* C12: a /webhook request whose signature check fails is answered 400 in
\* the step in which it arrives; that step leaves the carts, the orders and
\* the forwards as they were, the request never reaches the cart lookup, and
\* the handler does nothing afterwards.
C12_BadSignatureRejected ==
  /\ [](\A d \in Deliveries :
          req[d].signature = "invalid"
          => /\ req[d].pc = "responded"
             /\ req[d].status = 400
             /\ req[d].cartKey = "none")
  /\ [][\A d \in Deliveries :
          req'[d].signature = "invalid"
          => IF req[d].signature = "invalid"
             THEN req'[d] = req[d]
             ELSE UNCHANGED <<carts, orders, forwards>>]_vars

C12_Witness ==
  \E d \in Deliveries :
    /\ req[d].signature = "invalid"
    /\ req[d].status = 400
    /\ metadata[req[d].session] \in carts
    /\ OrdersOf(req[d].session) = {}
    /\ forwards[req[d].session] = 0

\* ------------------------------------------------------ claims: api.js

\* C13: a request to /api/update-product-tag whose Authorization header is
\* missing or is not `Bearer ${API_SECRET}` is answered 401 and leaves the
\* tags Shopify holds as they were, whatever its body (also a body that would
\* be answered 400).
C13_UnauthorizedIs401 ==
  [][(handled' = handled + 1 /\ args'.auth # Bearer(API_SECRET))
     => /\ res'.status = 401
        /\ res'.error = "Unauthorized"
        /\ shopifyTags' = shopifyTags]_vars

C13_Witness ==
  /\ handled = 2
  /\ args.auth = Bearer("guess")
  /\ ~IsString(args.tag)
  /\ res.status = 401
  /\ \E p \in Products : shopifyTags[p] # "none"

\* ------------------------------------------- claims: error responses

\* C14: a response with status 500 carries a generic message, never the text
\* of the internal error.
C14_GenericErrorBody ==
  res.status = 500 => res.error \notin InternalErrors

\* ------------------------------------------- claims: sendOrderToZapier

\* The sum of final unit price times quantity over the payload's line items.
RECURSIVE FinalSum(_)
FinalSum(lines) ==
  IF lines = <<>> THEN 0
  ELSE lines[1].final_price * lines[1].quantity + FinalSum(Tail(lines))

Abs(x) == IF x < 0 THEN -x ELSE x

\* The discount the session carries: what was not paid of the subtotal.
SessionDiscount == ret.subtotalCents - args.session.amount_total

\* C15: when the cart's item totals add up to the subtotal and the discount
\* lies between 0 and the subtotal, the final unit prices times the
\* quantities add up to subtotal - discount, give or take one cent per line
\* item.
C15_AllocationAddsUp ==
  (/\ ret.called
   /\ ReduceItems(args.items) = ret.subtotalCents
   /\ 0 <= SessionDiscount
   /\ SessionDiscount <= ret.subtotalCents)
  => Abs(FinalSum(ret.final_line_items) - (ret.subtotalCents - SessionDiscount))
       <= Len(args.items)

\* C16: each line item's discount is the integer nearest to its share
\* itemTotal / subtotal of the discount, and 0 when the subtotal is 0; the
\* final item total is the item total less that discount; for the scenario
\* cart the discounts are 400 and 100 and the final totals 1600 and 400.
C16_ProportionalItemDiscount ==
  ret.called
  => /\ \A i \in 1..Len(args.items) :
          LET line == ret.final_line_items[i]
              total == OriginalItemTotal(args.items[i])
          IN /\ ret.subtotalCents = 0 => line.itemDiscount = 0
             /\ ret.subtotalCents > 0
                => 2 * Abs(line.itemDiscount * ret.subtotalCents
                             - total * ret.discountCents) <= ret.subtotalCents
             /\ line.finalItemTotal = total - line.itemDiscount
     /\ args = ScenarioCall
        => /\ ret.subtotalCents = 2500
           /\ ret.discountCents = 500
           /\ ret.final_line_items[1].itemDiscount = 400
           /\ ret.final_line_items[2].itemDiscount = 100
           /\ ret.final_line_items[1].finalItemTotal = 1600
           /\ ret.final_line_items[2].finalItemTotal = 400

C16_Witness ==
  /\ ret.called
  /\ args = ScenarioCall
  /\ ret.final_line_items[1].itemDiscount = 400
  /\ ret.final_line_items[2].finalItemTotal = 400

\* The discount applied over all line items.
RECURSIVE AppliedDiscount(_)
AppliedDiscount(lines) ==
  IF lines = <<>> THEN 0
  ELSE lines[1].itemDiscount + AppliedDiscount(Tail(lines))

\* C17: whatever the session's amounts, the discount applied over all line
\* items lies between 0 and the subtotal and no line item's final price is
\* negative.
C17_DiscountClamped ==
  ret.called
  => /\ 0 <= AppliedDiscount(ret.final_line_items)
     /\ AppliedDiscount(ret.final_line_items) <= ret.subtotalCents
     /\ \A i \in 1..Len(ret.final_line_items) :
          /\ ret.final_line_items[i].finalItemTotal >= 0
          /\ ret.final_line_items[i].final_price >= 0

\* ------------------------------------------- claims: the classifier

\* The name has this code point somewhere.
ContainsGlyph(n, glyph) == \E i \in 1..Len(n) : n[i] = glyph

\* The name has this lower-case ASCII word somewhere, each letter in either
\* case.
ContainsWord(n, word) ==
  \E i \in 0..(Len(n) - Len(word)) :
    \A j \in 1..Len(word) : n[i + j] \in {word[j], word[j] - 32}

\* C18: a channel name that contains the green glyph is classified
\* "working", whatever else it contains.
C18_PositiveGlyphWins ==
  (ret.tag # "none" /\ ContainsGlyph(args.channelName, WorkingEmoji))
  => ret.tag = "working"

C18_Witness ==
  /\ ret.tag = "working"
  /\ ContainsGlyph(args.channelName, WorkingEmoji)
  /\ ContainsGlyph(args.channelName, DownEmoji)
  /\ ContainsWord(args.channelName, KwTest)

\* The six rules in their order, and the tag each gives.
RuleTags == <<"working", "down", "updating", "working", "down", "updating">>

RuleMatches(i, n) ==
  CASE i = 1 -> ContainsGlyph(n, WorkingEmoji)
    [] i = 2 -> ContainsGlyph(n, DownEmoji)
    [] i = 3 -> ContainsGlyph(n, UpdatingEmoji)
    [] i = 4 -> ContainsWord(n, KwWork)
    [] i = 5 -> ContainsWord(n, KwTest)
    [] i = 6 -> ContainsWord(n, KwUpdate)

\* C19: the tag of a channel name is the tag of the first of the six rules
\* that matches it, "unknown" when none matches, and always one of the four
\* tags.
C19_FirstMatchingRule ==
  ret.tag # "none"
  => LET matching == {i \in 1..Len(RuleTags) : RuleMatches(i, args.channelName)}
     IN /\ ret.tag \in Tags
        /\ matching = {} => ret.tag = "unknown"
        /\ matching # {}
           => ret.tag = RuleTags[CHOOSE i \in matching : \A j \in matching : i <= j]

C19_Witness ==
  /\ ret.tag = "down"
  /\ ~ContainsGlyph(args.channelName, DownEmoji)
  /\ ContainsWord(args.channelName, KwTest)
  /\ ContainsWord(args.channelName, KwUpdate)

\* ------------------------------------------- claims: the title lookup

\* A pictographic glyph: one of the class of removeEmojis, or the check mark.
IsPictographic(cp) == IsStrippedGlyph(cp) \/ cp = CheckMark

\* The name without its leading and trailing pictographic glyphs and white
\* space.
RECURSIVE StripEnds(_)
StripEnds(n) ==
  IF n = <<>> THEN n
  ELSE IF IsPictographic(n[1]) \/ IsWhiteSpace(n[1]) THEN StripEnds(Tail(n))
  ELSE IF IsPictographic(n[Len(n)]) \/ IsWhiteSpace(n[Len(n)])
  THEN StripEnds(SubSeq(n, 1, Len(n) - 1))
  ELSE n

\* The two differ only in letter case and in leading or trailing
\* pictographic glyphs and white space.
SameTitle(n, key) == ToLowerCase(StripEnds(n)) = ToLowerCase(StripEnds(key))

\* C20: when the title lookup of a channel name returns, it returns the
\* product id of the stored title that the name matches up to letter case and
\* leading or trailing glyphs and white space, and null when the name
\* matches no stored title.
C20_TitleLookupNormalised ==
  ret.productId \notin {"none", "rejected"}
  => /\ \A r \in product_mapping :
          SameTitle(args.channelName, r.title) => ret.productId = r.product_id
     /\ (\A r \in product_mapping : ~SameTitle(args.channelName, r.title))
        => ret.productId = NULL

\* ------------------------------------------- claims: the import script

\* The number of colons of a line: a line of n fields has n - 1.
RECURSIVE Colons(_)
Colons(line) ==
  IF line = <<>> THEN 0
  ELSE (IF Head(line) = Colon THEN 1 ELSE 0) + Colons(Tail(line))

\* The line has a character that is not white space, and the first such
\* characters are neither '//' nor '-'.
IsDataLine(line) ==
  \E i \in 1..Len(line) :
    /\ ~IsWhiteSpace(line[i])
    /\ \A j \in 1..(i - 1) : IsWhiteSpace(line[j])
    /\ line[i] # Dash
    /\ ~(line[i] = Slash /\ i < Len(line) /\ line[i + 1] = Slash)

\* C21: the lines the import goes through are the lines of the file that are
\* neither blank nor comments; every line gone through has its log entry, and
\* a line with fewer than three fields is logged as skipped and changes no
\* table; every step goes on to the next line, so
\* the import reaches the last line; and a line of three or more fields whose
\* statements did not fail leaves its row in both tables.
C21_MalformedLineSkipped ==
  /\ [](/\ ret.lines = SelectSeq(Split(args.data, LineFeed), IsDataLine)
        /\ Len(ret.log) = ret.pos
        /\ \A i \in 1..ret.pos :
             Colons(ret.lines[i]) < 2 <=> ret.log[i] = "skipped"
        /\ ret.pos < Len(ret.lines) => ENABLED ImportLine)
  /\ [][ret' # ret
        => LET line == ret.lines[ret.pos + 1]
               parts == Split(line, Colon)
           IN /\ ret'.pos = ret.pos + 1
              /\ ret'.lines = ret.lines
              /\ Colons(line) < 2
                 => /\ ret'.product_mapping = ret.product_mapping
                    /\ ret'.channel_mapping = ret.channel_mapping
              /\ (Colons(line) >= 2 /\ ret'.log[ret'.pos] = "stored")
                 => /\ [title |-> Trim(parts[1]), product_id |-> Trim(parts[2]),
                         channel_id |-> Trim(parts[3])] \in ret'.product_mapping
                    /\ [channel_id |-> Trim(parts[3]), product_id |-> Trim(parts[2])]
                         \in ret'.channel_mapping]_vars

C21_Witness ==
  /\ ret.lines = <<LineAb, LineTwoFields, LineX>>
  /\ ret.pos = 3
  /\ ret.log = <<"stored", "skipped", "stored">>
  /\ \E r \in ret.product_mapping : r.title = <<65, 98>>
  /\ \E r \in ret.product_mapping : r.title = <<120>>
  /\ \E r \in ret.channel_mapping : r.product_id = <<52>>

\* C22: the product_mapping table never holds two rows whose titles are
\* equal in lower case.
C22_OneRowPerLowercasedTitle ==
  \A r1 \in ret.product_mapping, r2 \in ret.product_mapping :
    ToLowerCase(r1.title) = ToLowerCase(r2.title) => r1 = r2

\* The request of task (k, c) has arrived and is not settled, and the remote
\* end has since received a request of another run of the function for c with
\* another name: two cycles overlap and the name changed between them.
OverlapAfterRename(k, c) ==
  /\ task[k][c].pc = "push"
  /\ task[k][c].arrived
  /\ delivered[c].title # task[k][c].payload.title

\* Every cycle that started has finished.
CyclesFinished == \A k \in Cycles, c \in Channels : task[k][c].pc \in {"idle", "done"}

\* C23: when two cycles overlap and the channel's name changes between them,
\* then once both cycles have finished the tag cached for a channel that is
\* not ignored is the tag of the last update the remote end received for it.
C23_CacheIsLastDelivered ==
  [][\A k \in Cycles, c \in Channels :
       (OverlapAfterRename(k, c) /\ CyclesFinished' /\ channelStatusCache'[c] \in Tags)
       => channelStatusCache'[c] = delivered'[c].tag]_vars

\* ------------------------------------------------- the scan under fairness

\* What the runtime guarantees: the interval timer fires again (setInterval,
\* line 149), the callback of a db.get is called once the query is over, and
\* a request of axios.post settles. Nothing makes a request arrive, and
\* nothing makes a moderator rename a channel.
ScanFairness ==
  /\ WF_vars(Tick)
  /\ \A k \in Cycles, c \in Channels :
       /\ WF_vars(ChannelLookupReturns(k, c))
       /\ WF_vars(TitleLookupReturns(k, c))
       /\ WF_vars(PushReturns(k, c))

SpecFair == Init /\ [][Next]_vars /\ ScanFairness

\* Task (k, c) returned having called updateProductStatus with tag t and
\* having set the cache entry to t.
EmittedAndCached(k, c, t) ==
  /\ task[k][c].pc = "done"
  /\ task[k][c].outcome = "cached"
  /\ task[k][c].sink \in {"ok", "failed", "skipped"}
  /\ channelStatusCache[c] = t

\* Task (k, c) returned because a lookup failed or no mapping row exists.
NotResolved(k, c) ==
  /\ task[k][c].pc = "done"
  /\ task[k][c].outcome \in {"dbError", "markedIgnored"}

C25_RejectedCheckoutLeavesNoTrace ==
  [][(/\ handled' = handled + 1
      /\ res'.route = "/create-checkout-session"
      /\ res'.status = 400)
     => /\ carts' = carts
        /\ metadata' = metadata]_vars

\* C26: for each session sendOrderToZapier reaches its axios.post at most once
\* over all deliveries, and only in the step in which Order.create stored the
\* order of that session.
C26_ForwardOnceAfterOrder ==
  /\ [](\A s \in Sessions :
          /\ forwards[s] <= 1
          /\ forwards[s] > 0 => OrdersOf(s) # {})
  /\ [][\A s \in Sessions :
          forwards'[s] # forwards[s]
          => /\ forwards'[s] = forwards[s] + 1
             /\ Len(orders') = Len(orders) + 1
             /\ orders'[Len(orders')].sessionId = s
             /\ \E d \in Deliveries :
                  /\ req[d].pc = "createOrder"
                  /\ req[d].session = s
                  /\ req'[d].result = "orderCreated"]_vars

\* Two deliveries of one session went through the handler, the second while
\* the order existed; one forward was made.
C26_Witness ==
  \E d1 \in Deliveries, d2 \in Deliveries :
    /\ d1 # d2
    /\ req[d1].session = req[d2].session
    /\ req[d1].result = "orderCreated"
    /\ req[d2].pc = "responded"
    /\ req[d2].result \in {"duplicateKey", "cartNotFound"}
    /\ forwards[req[d1].session] = 1

\* C27: a delivery whose handler deleted the cart is acknowledged only with an
\* Order of its session in the collection.
C27_CartConsumedWithOrder ==
  [][\A d \in Deliveries :
       (/\ req[d].pc = "createOrder"
        /\ req'[d].pc = "responded"
        /\ req'[d].status = 200)
       => /\ req[d].cartKey \notin carts'
          /\ \E i \in 1..Len(orders') : orders'[i].sessionId = req[d].session]_vars

\* The license keys the call for message m sent.
KeysOf(m) == {x \in outbox : x.run = m /\ x.text = "key"}

\* Every key went by direct message to the author of a message whose order
\* number and session id validateOrderSession returned valid for.
KeysOnlyAfterValid ==
  \A x \in outbox :
    x.key # NoKey
    => /\ x.via = "dm"
       /\ x.to = run[x.run].author
       /\ run[x.run].validation = "valid"
       /\ run[x.run].content = <<run[x.run].orderNumber, run[x.run].sessionId>>
       /\ run[x.run].content \in ValidPairs

\* This step is the call for message m returning with this outcome.
Returns(m, outcome) ==
  /\ run[m].pc \notin {"none", "done"}
  /\ run'[m].pc = "done"
  /\ run'[m].outcome = outcome

\* C28 as stated: keys go only by direct message and only after the
\* validation of what this user supplied returned valid; when validation
\* returns invalid or any step throws, no key is sent and the user's entry of
\* userState is removed.
C28_NoKeyWhenInvalidOrThrown ==
  /\ []KeysOnlyAfterValid
  /\ [][\A m \in Messages :
          (Returns(m, "invalid") \/ Returns(m, "error"))
          => /\ KeysOf(m)' = {}
             /\ userState'[run[m].author] = NoState]_vars

\* C28, amended: keys go only by direct message and only after the validation
\* of what this user supplied returned valid; when validation returns invalid,
\* or a step throws before the first key was sent, no key is sent; when a
\* later step throws no further key is sent; in each of these cases the
\* user's entry of userState is removed.
C28_NoKeyWhenInvalidOrThrownEarly ==
  /\ []KeysOnlyAfterValid
  /\ [][\A m \in Messages :
          /\ Returns(m, "invalid")
             => /\ KeysOf(m)' = {}
                /\ userState'[run[m].author] = NoState
          /\ Returns(m, "error")
             => /\ KeysOf(m)' = KeysOf(m)
                /\ run[m].keysSent = 0 => KeysOf(m)' = {}
                /\ userState'[run[m].author] = NoState
          /\ run[m].pc = "done" => KeysOf(m)' = KeysOf(m)]_vars

\* A verification passed and a step threw before the first key was sent.
C28_Witness ==
  \E m \in Messages :
    /\ run[m].outcome = "error"
    /\ run[m].validation = "valid"
    /\ KeysOf(m) = {}
    /\ userState[run[m].author] = NoState

\* The last !auth of the author of message m before it, 0 when there is none.
LastCommand(m) ==
  LET js == {j \in 1..(m - 1) : run[j].author = run[m].author /\ run[j].outcome = "prompted"}
  IN IF js = {} THEN 0 ELSE CHOOSE j \in js : \A k \in js : k <= j

\* The call for message m reached the try block: it started a verification.
Started(m) ==
  /\ run[m].pc # "none"
  /\ run[m].pc = "done" => run[m].outcome \in {"invalid", "delivered", "noKeys", "error"}

\* C29: no two messages of a user start a verification under the same !auth,
\* and a message that starts one was handled at most ten minutes after it.
C29_OneVerificationPerCommand ==
  /\ \A m1 \in Messages, m2 \in Messages :
       (m1 < m2 /\ run[m1].author = run[m2].author /\ Started(m1) /\ Started(m2))
       => LastCommand(m1) # LastCommand(m2)
  /\ \A m \in Messages :
       Started(m) => /\ LastCommand(m) # 0
                     /\ run[m].at - run[LastCommand(m)].at <= TimeoutMs

\* The product ids task t can resolve in its next step: the row of the
\* channel, or a row of the title.
Resolvable(c, t) ==
  IF t.pc = "lookupChannel"
  THEN {getProductIdForChannel(c)} \ {NULL, ""}
  ELSE IF t.pc = "lookupTitle"
  THEN getProductIdForTitle(t.titleQuery) \ {NULL, ""}
  ELSE {}

\* The product id is the configured default or the string 'unknown'.
IsPlaceholder(productId) == productId = DEFAULT_PRODUCT_ID \/ productId = "unknown"

\* C30: when the product id resolved for a tag other than "unknown" is the
\* default product id or 'unknown', the function returns in that step with no
\* request made and the cache entry set to the new tag; a request is only ever
\* made for another product id.
C30_SkippedUpdateStillCached ==
  /\ [](\A k \in Cycles, c \in Channels :
          task[k][c].pc = "push" => ~IsPlaceholder(task[k][c].payload.productId))
  /\ [][\A k \in Cycles, c \in Channels :
          (/\ Advances(k, c)
           /\ task[k][c].newTag # "unknown"
           /\ task'[k][c].outcome # "dbError"
           /\ Resolvable(c, task[k][c]) # {}
           /\ \A productId \in Resolvable(c, task[k][c]) : IsPlaceholder(productId))
          => /\ task'[k][c].pc = "done"
             /\ task'[k][c].sink = "skipped"
             /\ channelStatusCache'[c] = task[k][c].newTag
             /\ delivered' = delivered]_vars

\* The cache holds a tag for a channel for which no request was ever made.
C30_Witness ==
  \E c \in Channels :
    /\ channelStatusCache[c] \in Tags
    /\ delivered[c] = NoPayload
    /\ \E k \in Cycles : task[k][c].sink = "skipped"
    /\ \A k \in Cycles : task[k][c].sink \in {"none", "skipped"}

====
